---- MODULE Spec2Model ----
(***************************************************************************)
(* Governance hook of claude-code-enterprise                               *)
(* (plugins/governance-layer/hooks/governance_hook.py).                    *)
(*                                                                         *)
(* One hook process handles one event: it reads a JSON payload from        *)
(* standard input, dispatches on --event, writes audit lines to the local  *)
(* log, optionally POSTs them to a SIEM collector, may ask the user on     *)
(* /dev/tty, and ends with an exit code.                                   *)
(*                                                                         *)
(* Text is a sequence of one-character strings.  A Python/JSON value is a  *)
(* record [k |-> kind, v |-> payload] with kind one of "null", "num",      *)
(* "str", "list", "obj"; a number carries its decimal digits, an object a  *)
(* sequence of <<key, value>> pairs in insertion order.                    *)
(*                                                                         *)
(* The module-level setup (source lines 18-27: makedirs, basicConfig) is   *)
(* taken to have succeeded: the log file exists and can be appended to.    *)
(* The entry's timestamp and model_version fields are left out.            *)
(***************************************************************************)
EXTENDS Integers, Sequences, FiniteSets, TLC

(***************************************************************************)
(* Characters and text                                                     *)
(***************************************************************************)
UpperSeq == <<"A","B","C","D","E","F","G","H","I","J","K","L","M","N","O","P","Q","R","S","T","U","V","W","X","Y","Z">>
LowerSeq == <<"a","b","c","d","e","f","g","h","i","j","k","l","m","n","o","p","q","r","s","t","u","v","w","x","y","z">>
DigitSeq == <<"0","1","2","3","4","5","6","7","8","9">>

Range(s) == {s[i] : i \in DOMAIN s}

Upper == Range(UpperSeq)
Lower == Range(LowerSeq)
Digit == Range(DigitSeq)
Letter == Upper \cup Lower

\* \w of the re module, ASCII part
WordChar == Letter \cup Digit \cup {"_"}

\* characters str.strip() removes
Whitespace == {" ", "\t", "\n", "\r"}

\* str.lower() on one character
LowerChar(c) ==
    IF c \in Upper
    THEN LowerSeq[CHOOSE i \in DOMAIN UpperSeq : UpperSeq[i] = c]
    ELSE c

\* str.lower()
ToLower(t) == [i \in DOMAIN t |-> LowerChar(t[i])]

\* the Python test  `needle in text`
Contains(text, needle) ==
    \E i \in 1..(Len(text) - Len(needle) + 1) :
        SubSeq(text, i, i + Len(needle) - 1) = needle

\* str.strip()
Strip(t) ==
    LET keep == {i \in DOMAIN t : t[i] \notin Whitespace}
    IN IF keep = {} THEN <<>>
       ELSE SubSeq(t, CHOOSE i \in keep : \A j \in keep : i <= j,
                      CHOOSE i \in keep : \A j \in keep : i >= j)

\* a Python assignment  x = value  followed by the statements F that use x:
\* the value is computed once, before F
Let(value, F(_)) == CHOOSE r \in {F(x) : x \in {value}} : TRUE

\* the character at index i, "" outside the text
At(t, i) == IF i >= 1 /\ i <= Len(t) THEN t[i] ELSE ""

\* t[i..j], with "" for the indices outside the text
Slice(t, i, j) == [k \in 1..(j - i + 1) |-> At(t, i + k - 1)]

\* last index of the longest run of characters of class C starting at i
\* (i - 1 when the run is empty)
RunEnd(t, i, C) ==
    CHOOSE j \in (i - 1)..Len(t) :
        /\ \A k \in i..j : t[k] \in C
        /\ At(t, j + 1) \notin C

\* \b between index i - 1 and index i
WordBoundary(t, i) == (At(t, i - 1) \in WordChar) # (At(t, i) \in WordChar)

(***************************************************************************)
(* Pattern Matcher: check_pii                                              *)
(***************************************************************************)
REDACTED_EMAIL == <<"[","R","E","D","A","C","T","E","D","_","E","M","A","I","L","]">>
REDACTED_SSN == <<"[","R","E","D","A","C","T","E","D","_","S","S","N","]">>
REDACTED_CREDIT_CARD == <<"[","R","E","D","A","C","T","E","D","_","C","R","E","D","I","T","_","C","A","R","D","]">>
REDACTED_EMPLOYEE_ID == <<"[","R","E","D","A","C","T","E","D","_","E","M","P","L","O","Y","E","E","_","I","D","]">>
REDACTED_PROJECT_CODE == <<"[","R","E","D","A","C","T","E","D","_","P","R","O","J","E","C","T","_","C","O","D","E","]">>

\* [a-zA-Z0-9._%+-]
EmailLocalClass == Letter \cup Digit \cup {".", "_", "%", "+", "-"}
\* [a-zA-Z0-9.-]
EmailDomainClass == Letter \cup Digit \cup {".", "-"}
\* [ -]
CardSeparator == {" ", "-"}

\* Each ...Match(t, i) is the index of the last character of the match of
\* the pattern at index i of t, as re finds it, or 0 when there is none.

\* [a-zA-Z0-9._%+-]+@[a-zA-Z0-9.-]+\.[a-zA-Z]{2,}
\* The greedy domain part backtracks to the last dot of the domain run that
\* has a domain character before it and two letters after it.
EmailMatch(t, i) ==
    LET at == RunEnd(t, i, EmailLocalClass) + 1
    IN IF at = i \/ At(t, at) # "@" THEN 0
       ELSE LET e == RunEnd(t, at + 1, EmailDomainClass)
                dots == {d \in (at + 2)..e :
                            t[d] = "." /\ RunEnd(t, d + 1, Letter) - d >= 2}
            IN IF dots = {} THEN 0
               ELSE RunEnd(t, (CHOOSE d \in dots : \A x \in dots : d >= x) + 1, Letter)

\* \b\d{3}-\d{2}-\d{4}\b
SsnMatch(t, i) ==
    IF /\ WordBoundary(t, i)
       /\ \A k \in {i, i + 1, i + 2, i + 4, i + 5, i + 7, i + 8, i + 9, i + 10} :
              At(t, k) \in Digit
       /\ At(t, i + 3) = "-"
       /\ At(t, i + 6) = "-"
       /\ WordBoundary(t, i + 11)
    THEN i + 10
    ELSE 0

\* \b(?:\d[ -]*?){13,16}\b
\* CardLazy: n digits are consumed and the lazy [ -]*? of group n is at pos:
\* it first tries what follows and takes one more separator only when that
\* fails.  CardGroups is what follows: the greedy {13,16} tries one more
\* group first and leaves the loop (then \b) only from 13 groups on.
RECURSIVE CardLazy(_, _, _), CardGroups(_, _, _)
CardGroups(t, n, pos) ==
    Let(IF n < 16 /\ At(t, pos) \in Digit
        THEN CardLazy(t, n + 1, pos + 1)
        ELSE 0,
        LAMBDA more :
            IF more # 0 THEN more
            ELSE IF n >= 13 /\ WordBoundary(t, pos) THEN pos - 1
            ELSE 0)

CardLazy(t, n, pos) ==
    Let(CardGroups(t, n, pos),
        LAMBDA r :
            IF r # 0 THEN r
            ELSE IF At(t, pos) \in CardSeparator THEN CardLazy(t, n, pos + 1)
            ELSE 0)

CardMatch(t, i) ==
    IF WordBoundary(t, i) /\ At(t, i) \in Digit
    THEN CardLazy(t, 1, i + 1)
    ELSE 0

\* \bEMP-\d{5}\b
EmployeeMatch(t, i) ==
    IF /\ WordBoundary(t, i)
       /\ Slice(t, i, i + 3) = <<"E", "M", "P", "-">>
       /\ \A k \in (i + 4)..(i + 8) : At(t, k) \in Digit
       /\ WordBoundary(t, i + 9)
    THEN i + 8
    ELSE 0

\* \bPROJ-[A-Z]{3,}\b : the run of capitals must be followed by a non-word
\* character, a shorter run ends between two word characters
ProjectMatch(t, i) ==
    LET r == RunEnd(t, i + 5, Upper)
    IN IF /\ WordBoundary(t, i)
          /\ Slice(t, i, i + 4) = <<"P", "R", "O", "J", "-">>
          /\ r - (i + 4) >= 3
          /\ WordBoundary(t, r + 1)
       THEN r
       ELSE 0

\* the list `patterns` of check_pii, in its order
patterns == <<
    [pattern |-> "email", replacement |-> REDACTED_EMAIL],
    [pattern |-> "ssn", replacement |-> REDACTED_SSN],
    [pattern |-> "card", replacement |-> REDACTED_CREDIT_CARD],
    [pattern |-> "employee", replacement |-> REDACTED_EMPLOYEE_ID],
    [pattern |-> "project", replacement |-> REDACTED_PROJECT_CODE] >>

Match(pattern, t, i) ==
    CASE pattern = "email" -> EmailMatch(t, i)
      [] pattern = "ssn" -> SsnMatch(t, i)
      [] pattern = "card" -> CardMatch(t, i)
      [] pattern = "employee" -> EmployeeMatch(t, i)
      [] pattern = "project" -> ProjectMatch(t, i)

\* re.search(pattern, t) is not None
ReSearch(pattern, t) == \E i \in 1..Len(t) : Match(pattern, t, i) # 0

\* re.sub(pattern, replacement, t), scanning from index i: leftmost
\* non-overlapping matches, matched against the original text
RECURSIVE ReSubFrom(_, _, _, _)
ReSubFrom(pattern, replacement, t, i) ==
    IF i > Len(t) THEN <<>>
    ELSE Let(Match(pattern, t, i),
             LAMBDA e :
                 IF e # 0
                 THEN replacement \o ReSubFrom(pattern, replacement, t, e + 1)
                 ELSE <<t[i]>> \o ReSubFrom(pattern, replacement, t, i + 1))

\* re.sub with count=1: the leftmost match only
ReSubFirst(pattern, replacement, t) ==
    IF ~ReSearch(pattern, t) THEN t
    ELSE Let(CHOOSE i \in 1..Len(t) :
                 /\ Match(pattern, t, i) # 0
                 /\ \A j \in 1..(i - 1) : Match(pattern, t, j) = 0,
             LAMBDA i : SubSeq(t, 1, i - 1) \o replacement
                            \o SubSeq(t, Match(pattern, t, i) + 1, Len(t)))

ReSub(pattern, replacement, t) == ReSubFrom(pattern, replacement, t, 1)

\* the for loop of check_pii from pattern number n on
RECURSIVE RedactFrom(_, _, _)
RedactFrom(n, redacted_text, found_pii) ==
    IF n > Len(patterns) THEN [found |-> found_pii, redacted |-> redacted_text]
    ELSE IF ReSearch(patterns[n].pattern, redacted_text)
         THEN Let(ReSub(patterns[n].pattern, patterns[n].replacement, redacted_text),
                  LAMBDA substituted : RedactFrom(n + 1, substituted, TRUE))
         ELSE RedactFrom(n + 1, redacted_text, found_pii)

\* check_pii(text): text is a value; [found, redacted] where redacted is a value
check_pii(text) ==
    IF text.k # "str" THEN [found |-> FALSE, redacted |-> text]
    ELSE Let(text.v,
             LAMBDA redacted_text :
                 Let(RedactFrom(1, redacted_text, FALSE),
                     LAMBDA r : [found |-> r.found,
                                 redacted |-> [k |-> "str", v |-> r.redacted]]))

(***************************************************************************)
(* Risk Classifier: classify_risk                                          *)
(***************************************************************************)
high_risk_keywords == <<
    <<"c","o","n","f","i","d","e","n","t","i","a","l">>,
    <<"s","e","c","r","e","t">>,
    <<"h","r"," ","d","e","c","i","s","i","o","n">>,
    <<"m","e","d","i","c","a","l"," ","d","i","a","g","n","o","s","i","s">>,
    <<"f","i","n","a","n","c","i","a","l"," ","a","d","v","i","c","e">> >>

\* classify_risk that compares the text as it is with the lowered keywords
classify_risk_case_sensitive(text) ==
    IF text.k # "str" THEN "LOW"
    ELSE IF \E n \in DOMAIN high_risk_keywords :
                Contains(text.v, ToLower(high_risk_keywords[n]))
         THEN "HIGH"
         ELSE "LOW"

classify_risk(text) ==
    IF text.k # "str" THEN "LOW"
    ELSE IF \E n \in DOMAIN high_risk_keywords :
                Contains(ToLower(text.v), ToLower(high_risk_keywords[n]))
         THEN "HIGH"
         ELSE "LOW"

(***************************************************************************)
(* Python and JSON values                                                  *)
(***************************************************************************)
Null == [k |-> "null", v |-> <<>>]
Num(digits) == [k |-> "num", v |-> digits]
Str(chars) == [k |-> "str", v |-> chars]
List(items) == [k |-> "list", v |-> items]
Obj(pairs) == [k |-> "obj", v |-> pairs]

\* isinstance(x, dict)
IsDict(x) == x.k = "obj"

\* d.get(key, default) on a dict d
Get(d, key, default) ==
    IF \E n \in DOMAIN d.v : d.v[n][1] = key
    THEN d.v[CHOOSE n \in DOMAIN d.v : d.v[n][1] = key][2]
    ELSE default

\* repr(x); the repr of a string is the string in single quotes, which is
\* what Python gives for text without quotes, backslashes and control
\* characters
RECURSIVE PyRepr(_), ReprItems(_, _), ReprPairs(_, _)
ReprItems(items, n) ==
    IF n > Len(items) THEN <<>>
    ELSE (IF n > 1 THEN <<",", " ">> ELSE <<>>)
         \o PyRepr(items[n]) \o ReprItems(items, n + 1)

ReprPairs(pairs, n) ==
    IF n > Len(pairs) THEN <<>>
    ELSE (IF n > 1 THEN <<",", " ">> ELSE <<>>)
         \o <<"'">> \o pairs[n][1] \o <<"'", ":", " ">> \o PyRepr(pairs[n][2])
         \o ReprPairs(pairs, n + 1)

PyRepr(x) ==
    CASE x.k = "null" -> <<"N", "o", "n", "e">>
      [] x.k = "num" -> x.v
      [] x.k = "str" -> <<"'">> \o x.v \o <<"'">>
      [] x.k = "list" -> <<"[">> \o ReprItems(x.v, 1) \o <<"]">>
      [] x.k = "obj" -> <<"{">> \o ReprPairs(x.v, 1) \o <<"}">>

\* str(x)
PyStr(x) == IF x.k = "str" THEN x ELSE Str(PyRepr(x))

\* s[:n]
Prefix(s, n) == SubSeq(s, 1, IF Len(s) < n THEN Len(s) ELSE n)

(***************************************************************************)
(* Field names and sample texts                                            *)
(***************************************************************************)
k_prompt == <<"p","r","o","m","p","t">>
k_session_id == <<"s","e","s","s","i","o","n","_","i","d">>
k_tool_name == <<"t","o","o","l","_","n","a","m","e">>
k_tool_input == <<"t","o","o","l","_","i","n","p","u","t">>
k_tool_result == <<"t","o","o","l","_","r","e","s","u","l","t">>
k_content == <<"c","o","n","t","e","n","t">>
k_command == <<"c","o","m","m","a","n","d">>

Bash == <<"B","a","s","h">>
Read == <<"R","e","a","d">>
rm_rf_root == <<"r","m"," ","-","r","f"," ","/">>

t_hello == <<"h","e","l","l","o"," ","w","o","r","l","d">>
t_email == <<"m","a","i","l"," ","a","@","b",".","c","o","m">>
t_confidential == <<"t","h","i","s"," ","i","s"," ","C","o","n","f","i","d","e","n","t","i","a","l">>
t_secret_email == <<"s","e","c","r","e","t"," ","a","@","b",".","c","o","m">>
t_ssn == <<"1","2","3","-","4","5","-","6","7","8","9">>
t_rm == <<"s","u","d","o"," ","r","m"," ","-","r","f"," ","/">>
t_ls == <<"l","s"," ","-","l","a">>
t_session == <<"s","1">>
t_digits == <<"4","1","1","1","1","1","1","1","1","1","1","1","1">>
t_mail == <<"a","@","b",".","c","o">>
t_employee == <<"E","M","P","-","1","2","3","4","5">>
t_project == <<"P","R","O","J","-","A","B","C">>
t_Secret == <<"S","e","c","r","e","t">>
t_SECRE == <<"S","E","C","R","E">>

(***************************************************************************)
(* Inputs of one invocation                                                *)
(***************************************************************************)
\* values of --event: the four hook events and one the hook does not know
Events == {"SessionStart", "UserPromptSubmit", "PreToolUse", "PostToolUse", "Stop"}

\* JSON documents that are not an object
NonObjectPayloads == {Null, Num(<<"7">>), Str(t_hello), List(<<Str(t_email)>>)}

PromptValues ==
    {Str(t_hello), Str(t_email), Str(t_confidential), Str(t_secret_email),
     Str(t_ssn), Str(<<>>), Num(t_digits)}

PromptPayloads ==
    {Obj(<< <<k_session_id, Str(t_session)>>, <<k_prompt, x>> >>) : x \in PromptValues}

ToolUsePayloads ==
    {Obj(<< <<k_tool_name, Str(Bash)>>, <<k_tool_input, Obj(<< <<k_command, Str(t_rm)>> >>)>> >>),
     Obj(<< <<k_tool_name, Str(Bash)>>, <<k_tool_input, Str(t_rm)>> >>),
     Obj(<< <<k_tool_name, Str(Bash)>>, <<k_tool_input, Obj(<< <<k_command, Str(t_ls)>> >>)>> >>),
     Obj(<< <<k_tool_name, Str(Read)>>, <<k_tool_input, Obj(<< <<k_command, Str(t_rm)>> >>)>> >>),
     Obj(<< <<k_tool_input, Str(t_rm)>> >>),
     Obj(<< <<k_tool_name, Str(Bash)>> >>)}

ToolResultValues ==
    {Obj(<< <<k_content, Str(t_email)>> >>),
     Obj(<< <<k_content, Str(t_confidential)>> >>),
     Obj(<< <<k_content, Num(t_digits)>> >>),
     Obj(<<>>),
     Str(t_secret_email),
     Str(t_hello),
     Null,
     Num(t_digits),
     List(<<Str(t_email)>>)}

ToolResultPayloads ==
    {Obj(<< <<k_tool_name, Str(Bash)>>, <<k_tool_result, x>> >>) : x \in ToolResultValues}

ObjectPayloads ==
    {Obj(<<>>), Obj(<< <<k_session_id, Str(t_session)>> >>)}
        \cup PromptPayloads \cup ToolUsePayloads \cup ToolResultPayloads

\* texts for the Pattern Matcher and the Risk Classifier: up to three
\* pieces in a row, a piece being one sample of each PII category, a keyword
\* in mixed case, a keyword short of its last letter, or one character
TextPieces ==
    {<<>>, t_mail, t_ssn, t_digits, t_employee, t_project, t_Secret, t_SECRE,
     <<"t">>, <<" ">>, <<"1">>}

Texts == {a \o b \o c : a \in TextPieces, b \in TextPieces, c \in TextPieces}

\* what standard input holds: nothing, bytes that cannot be read as text,
\* text that is not JSON, or a JSON document
Stdins ==
    {[kind |-> "empty", value |-> Null],
     [kind |-> "unreadable", value |-> Null],
     [kind |-> "notjson", value |-> Null]}
        \cup {[kind |-> "json", value |-> x] : x \in NonObjectPayloads \cup ObjectPayloads}

\* /dev/tty: absent, present but not openable, open but failing on write or
\* read, or working and returning `line` from readline() ("" at end of file)
TtyLines ==
    {<<"y", "\n">>, <<"Y", "\n">>, <<" ", "y", " ", "\n">>, <<"n", "\n">>,
     <<"\n">>, <<"y", "e", "s", "\n">>, <<>>}

Ttys ==
    {[dev |-> d, line |-> <<>>] : d \in {"missing", "unopenable", "ioerror"}}
        \cup {[dev |-> "ok", line |-> l] : l \in TtyLines}

\* the HITL mode a policy configuration would set; the hook reads no policy
\* configuration
HitlModes == {"BLOCK", "INTERACTIVE"}

(***************************************************************************)
(* State                                                                   *)
(***************************************************************************)
VARIABLES
    procs,      \* the hook processes of this run
    event,      \* event[p]: the value of --event
    stdin,      \* stdin[p]: what standard input holds
    tty,        \* tty[p]: the state of /dev/tty
    SIEM_URL,   \* SIEM_URL[p]: TRUE when GOVERNANCE_SIEM_URL is set
    collector,  \* collector[p]: "up" or "down", whether a POST succeeds
    hitl_mode,  \* hitl_mode[p]: the configured HITL mode
    pc,         \* pc[p]: where process p is
    data,       \* data[p]: the parsed payload
    has_pii,    \* locals of the handler
    risk,
    approved,
    entry,      \* entry[p]: the entry log_audit is recording
    ret,        \* ret[p]: where log_audit returns to
    exit_code,  \* exit_code[p]: the exit status, -1 while p runs
    log,        \* the lines of ~/.claude/governance_audit.log, oldest first
    offset,     \* offset[p]: the file position of p's log stream, in lines
    posts,      \* the POSTs made to the collector, oldest first
    gate_calls  \* gate_calls[p]: how often p called request_user_approval

env == <<procs, event, stdin, tty, SIEM_URL, collector, hitl_mode>>
locals == <<data, has_pii, risk, approved>>
vars == <<env, pc, locals, entry, ret, exit_code, log, offset, posts, gate_calls>>

NoEntry == [event_type |-> "", risk_level |-> "", decision |-> "", details |-> <<>>]

InitProcess ==
    /\ pc = [p \in procs |-> "main"]
    /\ data = [p \in procs |-> Null]
    /\ has_pii = [p \in procs |-> FALSE]
    /\ risk = [p \in procs |-> "LOW"]
    /\ approved = [p \in procs |-> FALSE]
    /\ entry = [p \in procs |-> NoEntry]
    /\ ret = [p \in procs |-> ""]
    /\ exit_code = [p \in procs |-> -1]
    /\ log = <<>>
    /\ offset = [p \in procs |-> 0]
    /\ posts = <<>>
    /\ gate_calls = [p \in procs |-> 0]

\* one invocation, any input, any environment
Init ==
    /\ procs = {1}
    /\ event \in [procs -> Events]
    /\ stdin \in [procs -> Stdins]
    /\ tty \in [procs -> Ttys]
    /\ SIEM_URL \in [procs -> BOOLEAN]
    /\ collector \in [procs -> {"up", "down"}]
    /\ hitl_mode \in [procs -> HitlModes]
    /\ InitProcess

(***************************************************************************)
(* Audit Sink: log_audit and send_to_siem                                  *)
(***************************************************************************)
\* sys.exit(code), and the end of a process that dies on an uncaught
\* exception (the interpreter then exits with status 1)
Exit(p, code) ==
    /\ pc' = [pc EXCEPT ![p] = "exited"]
    /\ exit_code' = [exit_code EXCEPT ![p] = code]

\* the call log_audit(event_type, details, risk_level, decision): builds
\* the entry (lines 49-56); the handler goes on at return_to
CallLogAudit(p, event_type, details, risk_level, decision, return_to) ==
    /\ entry' = [entry EXCEPT ![p] = [event_type |-> event_type,
                                      risk_level |-> risk_level,
                                      decision |-> decision,
                                      details |-> details]]
    /\ ret' = [ret EXCEPT ![p] = return_to]
    /\ pc' = [pc EXCEPT ![p] = "log_audit"]

\* one write to the log stream of p.  logging.basicConfig (lines 23-27)
\* opens the file in append mode and the handler writes a record, line end
\* included, with one write: the line goes to the end of the file as it is
\* at that moment, whatever the stream's own position, which then is the
\* new end of the file
WriteLog(p, levelname, message) ==
    /\ log' = Append(log, [proc |-> p, levelname |-> levelname, message |-> message])
    /\ offset' = [offset EXCEPT ![p] = Len(log) + 1]

\* the line a stream without append mode would write at its own position,
\* over what another process has put there
WriteAtOffset(p, levelname, message) ==
    LET line == [proc |-> p, levelname |-> levelname, message |-> message]
    IN /\ log' = IF offset[p] < Len(log)
                 THEN [log EXCEPT ![offset[p] + 1] = line]
                 ELSE Append(log, line)
       /\ offset' = [offset EXCEPT ![p] = @ + 1]

\* log_audit on a log file opened without append mode
log_audit_own_offset(p) ==
    /\ pc[p] = "log_audit"
    /\ WriteAtOffset(p, "INFO", entry[p])
    /\ pc' = [pc EXCEPT ![p] = "send_to_siem"]
    /\ UNCHANGED <<env, locals, entry, ret, exit_code, posts, gate_calls>>

\* line 57: logging.info(json.dumps(entry)) appends one line
log_audit(p) ==
    /\ pc[p] = "log_audit"
    /\ WriteLog(p, "INFO", entry[p])
    /\ pc' = [pc EXCEPT ![p] = "send_to_siem"]
    /\ UNCHANGED <<env, locals, entry, ret, exit_code, posts, gate_calls>>

\* send_to_siem without the try/except: a failed POST ends the process
send_to_siem_uncaught(p) ==
    /\ pc[p] = "send_to_siem"
    /\ IF ~SIEM_URL[p]
       THEN /\ pc' = [pc EXCEPT ![p] = ret[p]]
            /\ UNCHANGED <<log, posts, exit_code>>
       ELSE /\ posts' = Append(posts, [proc |-> p, entry |-> entry[p],
                                       ok |-> collector[p] = "up"])
            /\ UNCHANGED log
            /\ IF collector[p] = "up"
               THEN /\ pc' = [pc EXCEPT ![p] = ret[p]]
                    /\ UNCHANGED exit_code
               ELSE Exit(p, 1)
    /\ UNCHANGED <<env, offset, locals, entry, ret, gate_calls>>

\* send_to_siem that swallows a failed POST without logging it
send_to_siem_silent(p) ==
    /\ pc[p] = "send_to_siem"
    /\ IF ~SIEM_URL[p]
       THEN UNCHANGED posts
       ELSE posts' = Append(posts, [proc |-> p, entry |-> entry[p],
                                    ok |-> collector[p] = "up"])
    /\ pc' = [pc EXCEPT ![p] = ret[p]]
    /\ UNCHANGED <<env, offset, locals, entry, ret, exit_code, log, gate_calls>>

\* send_to_siem that tries a failed POST a second time
send_to_siem_retry(p) ==
    /\ pc[p] = "send_to_siem"
    /\ IF ~SIEM_URL[p]
       THEN UNCHANGED <<log, offset, posts>>
       ELSE IF collector[p] = "up"
            THEN /\ posts' = Append(posts, [proc |-> p, entry |-> entry[p], ok |-> TRUE])
                 /\ UNCHANGED <<log, offset>>
            ELSE /\ posts' = posts \o << [proc |-> p, entry |-> entry[p], ok |-> FALSE],
                                         [proc |-> p, entry |-> entry[p], ok |-> FALSE] >>
                 /\ WriteLog(p, "ERROR", "SIEM Logging Failed")
    /\ pc' = [pc EXCEPT ![p] = ret[p]]
    /\ UNCHANGED <<env, locals, entry, ret, exit_code, gate_calls>>

\* lines 29-43 and the return of log_audit: no POST without SIEM_URL; one
\* POST otherwise, whose failure is caught and logged as an error line
send_to_siem(p) ==
    /\ pc[p] = "send_to_siem"
    /\ IF ~SIEM_URL[p]
       THEN UNCHANGED <<log, offset, posts>>
       ELSE /\ posts' = Append(posts, [proc |-> p, entry |-> entry[p],
                                       ok |-> collector[p] = "up"])
            /\ IF collector[p] = "up"
               THEN UNCHANGED <<log, offset>>
               ELSE WriteLog(p, "ERROR", "SIEM Logging Failed")
    /\ pc' = [pc EXCEPT ![p] = ret[p]]
    /\ UNCHANGED <<env, locals, entry, ret, exit_code, gate_calls>>

(***************************************************************************)
(* Approval Gate: request_user_approval                                    *)
(***************************************************************************)
\* the answer of request_user_approval on terminal t: False without
\* /dev/tty and on every exception, else whether the stripped, lowered line
\* is "y"
\* request_user_approval that takes every line starting with "y" for a yes
request_user_approval_startswith(t) ==
    IF t.dev # "ok" THEN FALSE
    ELSE At(ToLower(Strip(t.line)), 1) = "y"

request_user_approval(t) ==
    IF t.dev # "ok" THEN FALSE
    ELSE ToLower(Strip(t.line)) = <<"y">>

(***************************************************************************)
(* Decision Router: main and the four handlers                             *)
(***************************************************************************)
\* lines 235-241: the payload, or no payload when standard input is empty,
\* cannot be read or is not JSON
ReadInput(in) ==
    IF in.kind = "json"
    THEN [ok |-> TRUE, data |-> in.value]
    ELSE [ok |-> FALSE, data |-> Null]

\* lines 243-252: the handler of an event, "" for an event without one
\* a dispatch that treats every other selector as the start of a session
Handler_default_session(e) ==
    CASE e = "SessionStart" -> "handle_session_start"
      [] e = "UserPromptSubmit" -> "handle_user_prompt"
      [] e = "PreToolUse" -> "handle_pre_tool_use"
      [] e = "PostToolUse" -> "handle_post_tool_use"
      [] OTHER -> "handle_session_start"

Handler(e) ==
    CASE e = "SessionStart" -> "handle_session_start"
      [] e = "UserPromptSubmit" -> "handle_user_prompt"
      [] e = "PreToolUse" -> "handle_pre_tool_use"
      [] e = "PostToolUse" -> "handle_post_tool_use"
      [] OTHER -> ""

\* main without the try/except of lines 235-241: input that cannot be read or
\* parsed ends the process with an uncaught exception
main_uncaught(p) ==
    /\ pc[p] = "main"
    /\ LET in == ReadInput(stdin[p])
       IN IF ~in.ok
          THEN IF stdin[p].kind = "empty"
               THEN Exit(p, 0) /\ UNCHANGED data
               ELSE Exit(p, 1) /\ UNCHANGED data
          ELSE /\ data' = [data EXCEPT ![p] = in.data]
               /\ IF Handler(event[p]) # ""
                  THEN /\ pc' = [pc EXCEPT ![p] = Handler(event[p])]
                       /\ UNCHANGED exit_code
                  ELSE Exit(p, 0)
    /\ UNCHANGED <<env, offset, has_pii, risk, approved, entry, ret, log, posts, gate_calls>>

main(p) ==
    /\ pc[p] = "main"
    /\ LET in == ReadInput(stdin[p])
       IN IF ~in.ok
          THEN Exit(p, 0) /\ UNCHANGED data
          ELSE /\ data' = [data EXCEPT ![p] = in.data]
               /\ IF Handler(event[p]) # ""
                  THEN /\ pc' = [pc EXCEPT ![p] = Handler(event[p])]
                       /\ UNCHANGED exit_code
                  ELSE Exit(p, 0)
    /\ UNCHANGED <<env, offset, has_pii, risk, approved, entry, ret, log, posts, gate_calls>>

\* data.get(...) on a payload that is no dict raises AttributeError, which
\* nothing catches: the process dies with status 1
Uncaught(p) ==
    /\ Exit(p, 1)
    /\ UNCHANGED <<env, offset, locals, entry, ret, log, posts, gate_calls>>

\* lines 122-124
handle_session_start(p) ==
    /\ pc[p] = "handle_session_start"
    /\ IF ~IsDict(data[p])
       THEN Uncaught(p)
       ELSE /\ CallLogAudit(p, "SESSION_START",
                            [session_id |-> Get(data[p], k_session_id, Null)],
                            "LOW", "ALLOWED", "session_exit")
            /\ UNCHANGED <<env, offset, locals, exit_code, log, posts, gate_calls>>

session_exit(p) ==
    /\ pc[p] = "session_exit"
    /\ Exit(p, 0)
    /\ UNCHANGED <<env, offset, locals, entry, ret, log, posts, gate_calls>>

\* lines 131-143: detection, classification and the INPUT_CHECK entry
handle_user_prompt(p) ==
    /\ pc[p] = "handle_user_prompt"
    /\ IF ~IsDict(data[p])
       THEN Uncaught(p)
       ELSE LET prompt == Get(data[p], k_prompt, Str(<<>>))
                pii == check_pii(prompt)
            IN /\ has_pii' = [has_pii EXCEPT ![p] = pii.found]
               /\ risk' = [risk EXCEPT ![p] = classify_risk(prompt)]
               /\ CallLogAudit(p, "INPUT_CHECK",
                               [session_id |-> Get(data[p], k_session_id, Null),
                                original_prompt |-> prompt,
                                redacted_prompt |-> pii.redacted,
                                has_pii |-> pii.found],
                               classify_risk(prompt), "ALLOWED", "prompt_decision")
               /\ UNCHANGED <<env, offset, data, approved, exit_code, log, posts, gate_calls>>

\* prompt_decision with the risk test ahead of the PII test
prompt_decision_risk_first(p) ==
    /\ pc[p] = "prompt_decision"
    /\ IF risk[p] = "HIGH"
       THEN /\ pc' = [pc EXCEPT ![p] = "hitl_workflow"]
            /\ UNCHANGED exit_code
       ELSE IF has_pii[p] THEN Exit(p, 1)
            ELSE Exit(p, 0)
    /\ UNCHANGED <<env, offset, locals, entry, ret, log, posts, gate_calls>>

\* lines 145-154 and 170: block on PII, go to the HITL workflow on HIGH
\* risk, allow otherwise
prompt_decision(p) ==
    /\ pc[p] = "prompt_decision"
    /\ IF has_pii[p] THEN Exit(p, 1)
       ELSE IF risk[p] = "HIGH"
            THEN /\ pc' = [pc EXCEPT ![p] = "hitl_workflow"]
                 /\ UNCHANGED exit_code
            ELSE Exit(p, 0)
    /\ UNCHANGED <<env, offset, locals, entry, ret, log, posts, gate_calls>>

\* lines 156-167: ask the user, then record the answer
hitl_workflow(p) ==
    /\ pc[p] = "hitl_workflow"
    /\ gate_calls' = [gate_calls EXCEPT ![p] = @ + 1]
    /\ LET answer == request_user_approval(tty[p])
       IN /\ approved' = [approved EXCEPT ![p] = answer]
          /\ CallLogAudit(p, "HITL_APPROVAL",
                          [session_id |-> Get(data[p], k_session_id, Null),
                           risk |-> risk[p],
                           approved |-> answer],
                          "LOW", IF answer THEN "ALLOWED" ELSE "BLOCKED", "hitl_exit")
    /\ UNCHANGED <<env, offset, data, has_pii, risk, exit_code, log, posts>>

\* hitl_exit that blocks whatever the answer was
hitl_exit_always_block(p) ==
    /\ pc[p] = "hitl_exit"
    /\ Exit(p, 1)
    /\ UNCHANGED <<env, offset, locals, entry, ret, log, posts, gate_calls>>

\* hitl_exit that exits on approval only and otherwise waits
hitl_exit_wait_for_approval(p) ==
    /\ pc[p] = "hitl_exit"
    /\ approved[p]
    /\ Exit(p, 0)
    /\ UNCHANGED <<env, offset, locals, entry, ret, log, posts, gate_calls>>

\* lines 161 and 168
hitl_exit(p) ==
    /\ pc[p] = "hitl_exit"
    /\ Exit(p, IF approved[p] THEN 0 ELSE 1)
    /\ UNCHANGED <<env, offset, locals, entry, ret, log, posts, gate_calls>>

\* lines 176-184
handle_pre_tool_use(p) ==
    /\ pc[p] = "handle_pre_tool_use"
    /\ IF ~IsDict(data[p])
       THEN Uncaught(p)
       ELSE /\ CallLogAudit(p, "TOOL_USE",
                            [session_id |-> Get(data[p], k_session_id, Null),
                             tool_name |-> Get(data[p], k_tool_name, Null),
                             tool_input |-> Get(data[p], k_tool_input, Null)],
                            "LOW", "ALLOWED", "denylist_check")
            /\ UNCHANGED <<env, offset, locals, exit_code, log, posts, gate_calls>>

\* line 186: tool_name == "Bash" and "rm -rf /" in str(tool_input)
Dangerous(d) ==
    LET tool_name == Get(d, k_tool_name, Null)
        tool_input == Get(d, k_tool_input, Null)
    IN /\ tool_name.k = "str"
       /\ tool_name.v = Bash
       /\ Contains(PyStr(tool_input).v, rm_rf_root)

\* lines 186-190
denylist_check(p) ==
    /\ pc[p] = "denylist_check"
    /\ Exit(p, IF Dangerous(data[p]) THEN 2 ELSE 0)
    /\ UNCHANGED <<env, offset, locals, entry, ret, log, posts, gate_calls>>

\* lines 200-204: the text of the tool result
Content(d) ==
    LET tool_result == Get(d, k_tool_result, Null)
    IN IF IsDict(tool_result)
       THEN PyStr(Get(tool_result, k_content, Str(<<>>)))
       ELSE PyStr(tool_result)

\* handle_post_tool_use that sends HIGH-risk tool output to the HITL workflow
handle_post_tool_use_hitl(p) ==
    /\ pc[p] = "handle_post_tool_use"
    /\ IF ~IsDict(data[p])
       THEN Uncaught(p)
       ELSE LET content == Content(data[p])
                pii == check_pii(content)
            IN /\ has_pii' = [has_pii EXCEPT ![p] = pii.found]
               /\ risk' = [risk EXCEPT ![p] = classify_risk(content)]
               /\ CallLogAudit(p, "TOOL_OUTPUT_CHECK",
                               [session_id |-> Get(data[p], k_session_id, Null),
                                tool_name |-> Get(data[p], k_tool_name, Null),
                                has_pii |-> pii.found,
                                content_snippet |-> Prefix(content.v, 200)],
                               "LOW", "ALLOWED",
                               IF classify_risk(content) = "HIGH"
                               THEN "hitl_workflow" ELSE "post_exit")
               /\ UNCHANGED <<env, offset, data, approved, exit_code, log, posts, gate_calls>>

\* lines 196-214
handle_post_tool_use(p) ==
    /\ pc[p] = "handle_post_tool_use"
    /\ IF ~IsDict(data[p])
       THEN Uncaught(p)
       ELSE LET content == Content(data[p])
                pii == check_pii(content)
            IN /\ has_pii' = [has_pii EXCEPT ![p] = pii.found]
               /\ risk' = [risk EXCEPT ![p] = classify_risk(content)]
               /\ CallLogAudit(p, "TOOL_OUTPUT_CHECK",
                               [session_id |-> Get(data[p], k_session_id, Null),
                                tool_name |-> Get(data[p], k_tool_name, Null),
                                has_pii |-> pii.found,
                                content_snippet |-> Prefix(content.v, 200)],
                               "LOW", "ALLOWED", "post_exit")
               /\ UNCHANGED <<env, offset, data, approved, exit_code, log, posts, gate_calls>>

\* lines 216-227: PII and HIGH risk change nothing
post_exit(p) ==
    /\ pc[p] = "post_exit"
    /\ Exit(p, 0)
    /\ UNCHANGED <<env, offset, locals, entry, ret, log, posts, gate_calls>>

Next ==
    \/ \E p \in procs : main(p)
    \/ \E p \in procs : handle_session_start(p)
    \/ \E p \in procs : session_exit(p)
    \/ \E p \in procs : handle_user_prompt(p)
    \/ \E p \in procs : prompt_decision(p)
    \/ \E p \in procs : hitl_workflow(p)
    \/ \E p \in procs : hitl_exit(p)
    \/ \E p \in procs : handle_pre_tool_use(p)
    \/ \E p \in procs : denylist_check(p)
    \/ \E p \in procs : handle_post_tool_use(p)
    \/ \E p \in procs : post_exit(p)
    \/ \E p \in procs : log_audit(p)
    \/ \E p \in procs : send_to_siem(p)

Spec == Init /\ [][Next]_vars

\* one invocation that keeps running: the interpreter executes the next
\* statement, the read of the terminal returns, the POST returns or times
\* out after 2 seconds (line 39)
SpecLive == Spec /\ WF_vars(Next)

\* two invocations with the same event, payload, terminal and mode, both
\* with a collector configured: it answers process 1 and fails process 2
InitPair ==
    /\ procs = {1, 2}
    /\ \E e \in Events, in \in Stdins, t \in Ttys, m \in HitlModes :
           /\ event = [p \in procs |-> e]
           /\ stdin = [p \in procs |-> in]
           /\ tty = [p \in procs |-> t]
           /\ hitl_mode = [p \in procs |-> m]
    /\ SIEM_URL = [p \in procs |-> TRUE]
    /\ collector = [p \in procs |-> IF p = 1 THEN "up" ELSE "down"]
    /\ InitProcess

SpecPair == InitPair /\ [][Next]_vars

\* the invocations the host starts at about the same time: one per event,
\* and two prompts, one of which goes through the HITL workflow
OverlapInputs ==
    {[event |-> "SessionStart",
      value |-> Obj(<< <<k_session_id, Str(t_session)>> >>)],
     [event |-> "UserPromptSubmit",
      value |-> Obj(<< <<k_session_id, Str(t_session)>>, <<k_prompt, Str(t_confidential)>> >>)],
     [event |-> "UserPromptSubmit",
      value |-> Obj(<< <<k_session_id, Str(t_session)>>, <<k_prompt, Str(t_email)>> >>)],
     [event |-> "PreToolUse",
      value |-> Obj(<< <<k_tool_name, Str(Bash)>>, <<k_tool_input, Str(t_rm)>> >>)],
     [event |-> "PostToolUse",
      value |-> Obj(<< <<k_tool_name, Str(Bash)>>, <<k_tool_result, Str(t_hello)>> >>)]}

OverlapTtys == {[dev |-> "missing", line |-> <<>>], [dev |-> "ok", line |-> <<"y", "\n">>]}

\* two invocations that overlap in time and share the log file, each with
\* its own event and payload, a collector configured, every POST free to
\* succeed or fail
InitOverlap ==
    /\ procs = {1, 2}
    /\ \E in \in [procs -> OverlapInputs] :
           /\ event = [p \in procs |-> in[p].event]
           /\ stdin = [p \in procs |-> [kind |-> "json", value |-> in[p].value]]
    /\ tty \in [procs -> OverlapTtys]
    /\ SIEM_URL = [p \in procs |-> TRUE]
    /\ collector \in [procs -> {"up", "down"}]
    /\ hitl_mode = [p \in procs |-> "INTERACTIVE"]
    /\ InitProcess

SpecOverlap == InitOverlap /\ [][Next]_vars

\* the events and payloads that carry a text of Texts to the Pattern Matcher
\* and the Risk Classifier, as a prompt or as the content of a tool result,
\* a prompt that is no string, and one payload for each other event
TextInputs ==
    {[event |-> "UserPromptSubmit",
      value |-> Obj(<< <<k_session_id, Str(t_session)>>, <<k_prompt, Str(t)>> >>)] : t \in Texts}
        \cup {[event |-> "PostToolUse",
               value |-> Obj(<< <<k_tool_name, Str(Bash)>>,
                                <<k_tool_result, Obj(<< <<k_content, Str(t)>> >>)>> >>)] : t \in Texts}
        \cup {[event |-> "UserPromptSubmit",
               value |-> Obj(<< <<k_session_id, Str(t_session)>>, <<k_prompt, Num(t_digits)>> >>)]}
        \cup OverlapInputs

\* one invocation on one of these inputs
InitTexts ==
    /\ procs = {1}
    /\ \E in \in TextInputs :
           /\ event = [p \in procs |-> in.event]
           /\ stdin = [p \in procs |-> [kind |-> "json", value |-> in.value]]
    /\ tty \in [procs -> OverlapTtys]
    /\ SIEM_URL \in [procs -> BOOLEAN]
    /\ collector = [p \in procs |-> "down"]
    /\ hitl_mode = [p \in procs |-> "INTERACTIVE"]
    /\ InitProcess

SpecTexts == InitTexts /\ [][Next]_vars

(***************************************************************************)
(* Vocabulary of the properties                                            *)
(***************************************************************************)
Exited(p) == pc[p] = "exited"

\* standard input parsed as JSON
Parsed(p) == stdin[p].kind = "json"

\* the payload is a JSON object
EventObject(p) == Parsed(p) /\ IsDict(stdin[p].value)

\* the prompt of an event object
PromptOf(p) == Get(stdin[p].value, k_prompt, Str(<<>>))

\* a UserPromptSubmit invocation whose prompt holds PII
PiiPrompt(p) ==
    /\ event[p] = "UserPromptSubmit"
    /\ EventObject(p)
    /\ check_pii(PromptOf(p)).found

\* a UserPromptSubmit invocation whose prompt is HIGH risk and holds no PII
HighRiskPrompt(p) ==
    /\ event[p] = "UserPromptSubmit"
    /\ EventObject(p)
    /\ ~check_pii(PromptOf(p)).found
    /\ classify_risk(PromptOf(p)) = "HIGH"

\* a PreToolUse invocation naming the shell tool with the catastrophic command
DangerousToolUse(p) ==
    /\ event[p] = "PreToolUse"
    /\ EventObject(p)
    /\ Dangerous(stdin[p].value)

\* indices of the log lines process p wrote
LinesOf(p) == {i \in DOMAIN log : log[i].proc = p}
AuditLinesOf(p) == {i \in LinesOf(p) : log[i].levelname = "INFO"}
ErrorLinesOf(p) == {i \in LinesOf(p) : log[i].levelname = "ERROR"}
EntriesOf(p, event_type) ==
    {i \in AuditLinesOf(p) : log[i].message.event_type = event_type}

\* the entry type each handler records
EntryType(e) ==
    CASE e = "SessionStart" -> "SESSION_START"
      [] e = "UserPromptSubmit" -> "INPUT_CHECK"
      [] e = "PreToolUse" -> "TOOL_USE"
      [] e = "PostToolUse" -> "TOOL_OUTPUT_CHECK"
      [] OTHER -> ""

(***************************************************************************)
(* C1  PII in the prompt always blocks                                     *)
(***************************************************************************)
\* C1: once the Pattern Matcher has reported PII in a UserPromptSubmit
\* prompt, the invocation can only end with exit code 1, whatever the risk
\* level, the HITL mode and the answer the Approval Gate would give: it has
\* no exit code yet or has exit code 1, and it never enters the HITL
\* workflow; and every exited UserPromptSubmit invocation whose prompt
\* holds PII has exit code 1.
C1_PiiAlwaysBlocks ==
    \A p \in procs :
        /\ (event[p] = "UserPromptSubmit" /\ has_pii[p]) =>
               /\ exit_code[p] \in {-1, 1}
               /\ Exited(p) => exit_code[p] = 1
               /\ pc[p] \in {"log_audit", "send_to_siem", "prompt_decision", "exited"}
        /\ (PiiPrompt(p) /\ Exited(p)) => exit_code[p] = 1

\* a HIGH-risk prompt with PII, a terminal that answers "y", mode
\* INTERACTIVE: blocked all the same
C1_Witness ==
    \E p \in procs :
        /\ event[p] = "UserPromptSubmit"
        /\ has_pii[p]
        /\ risk[p] = "HIGH"
        /\ hitl_mode[p] = "INTERACTIVE"
        /\ request_user_approval(tty[p])
        /\ Exited(p)
        /\ exit_code[p] = 1

(***************************************************************************)
(* C2  Exit-code contract                                                  *)
(***************************************************************************)
\* the exit code the contract gives an invocation
ContractExit(p) ==
    IF PiiPrompt(p) \/ (HighRiskPrompt(p) /\ ~request_user_approval(tty[p])) THEN 1
    ELSE IF DangerousToolUse(p) THEN 2
    ELSE 0

\* C2: over all event selectors and all standard-input payloads the process
\* exits 1 only for a UserPromptSubmit prompt with PII or with HIGH risk and
\* no approval, 2 only for a PreToolUse of the shell tool with a
\* catastrophic command, and 0 for every other input, malformed payloads
\* and JSON documents that are not an object included.
C2_ExitCodeContract ==
    \A p \in procs : Exited(p) => exit_code[p] = ContractExit(p)

(***************************************************************************)
(* C3  An audit entry for every accepted event                             *)
(***************************************************************************)
\* C3: for every parsed payload with selector SessionStart,
\* UserPromptSubmit, PreToolUse or PostToolUse, an audit entry of the
\* handler's type is in the local log by the time the process exits,
\* whether the exit code is 0, 1 or 2.
C3_AuditForEveryAcceptedEvent ==
    \A p \in procs :
        (Exited(p) /\ Parsed(p) /\ Handler(event[p]) # "") =>
            EntriesOf(p, EntryType(event[p])) # {}

(***************************************************************************)
(* C4  Growth of the local log                                             *)
(***************************************************************************)
\* C4 as stated: the local log grows by exactly one line per handled
\* invocation (an event object under one of the four events), on every
\* path of every handler, with the collector reachable, unreachable or not
\* configured.
C4_ExactlyOneLine ==
    \A p \in procs :
        (Exited(p) /\ EventObject(p) /\ Handler(event[p]) # "") =>
            Cardinality(LinesOf(p)) = 1

\* the audit entries an invocation records
AuditEntriesDue(p) ==
    IF ~EventObject(p) \/ Handler(event[p]) = "" THEN 0
    ELSE IF HighRiskPrompt(p) THEN 2
    ELSE 1

\* C4 amended: an exited invocation has written one audit entry when it
\* handled an event object, two (INPUT_CHECK and HITL_APPROVAL) when the
\* prompt is HIGH risk without PII, and none when nothing was handled or
\* the payload is no object; each audit entry is followed by one error
\* line when a collector is configured and unreachable, and by none
\* otherwise.
C4_LogGrowth ==
    \A p \in procs :
        Exited(p) =>
            /\ Cardinality(AuditLinesOf(p)) = AuditEntriesDue(p)
            /\ Cardinality(ErrorLinesOf(p)) =
                   (IF SIEM_URL[p] /\ collector[p] = "down"
                    THEN AuditEntriesDue(p) ELSE 0)

\* a HIGH-risk prompt, collector unreachable: four lines
C4_Witness ==
    \E p \in procs :
        /\ Exited(p)
        /\ HighRiskPrompt(p)
        /\ Cardinality(AuditLinesOf(p)) = 2
        /\ Cardinality(ErrorLinesOf(p)) = 2

(***************************************************************************)
(* C5  The collector does not influence the decision                       *)
(***************************************************************************)
\* C5: two invocations on the same event, payload and Approval Gate
\* answer, one with the collector reachable and one with it unreachable,
\* end with the same exit code.
C5_SameExitCode ==
    (Exited(1) /\ Exited(2)) => exit_code[1] = exit_code[2]

\* both runs blocked a prompt, one POST succeeded and one failed
C5_Witness ==
    /\ procs = {1, 2}
    /\ Exited(1) /\ Exited(2)
    /\ exit_code[1] = 1 /\ exit_code[2] = 1
    /\ \E i \in DOMAIN posts : posts[i].proc = 1 /\ posts[i].ok
    /\ \E i \in DOMAIN posts : posts[i].proc = 2 /\ ~posts[i].ok
    /\ ErrorLinesOf(2) # {}

(***************************************************************************)
(* C6  HIGH-risk prompt without PII                                        *)
(***************************************************************************)
\* the HITL outcome of an exited invocation: the gate was called once, a
\* HITL_APPROVAL entry separate from and after the INPUT_CHECK entry records
\* the answer, and the exit code is 0 exactly when the gate returned true
HitlOutcome(p) ==
    /\ gate_calls[p] = 1
    /\ \E i \in EntriesOf(p, "INPUT_CHECK"), j \in EntriesOf(p, "HITL_APPROVAL") :
           /\ i < j
           /\ log[j].message.details.approved = approved[p]
           /\ log[j].message.decision = (IF approved[p] THEN "ALLOWED" ELSE "BLOCKED")
    /\ exit_code[p] = (IF approved[p] THEN 0 ELSE 1)

InputCheckLogged(p) ==
    \E i \in EntriesOf(p, "INPUT_CHECK") :
        /\ log[i].message.details.original_prompt = PromptOf(p)
        /\ log[i].message.details.redacted_prompt = check_pii(PromptOf(p)).redacted
        /\ log[i].message.details.has_pii = check_pii(PromptOf(p)).found
        /\ log[i].message.risk_level = classify_risk(PromptOf(p))

\* C8: on every path through the UserPromptSubmit handler the INPUT_CHECK
\* entry is in the log before the Approval Gate is consulted and before
\* any exit.
C8_InputCheckBeforeDecision ==
    \A p \in procs :
        (event[p] = "UserPromptSubmit" /\ Parsed(p)) =>
            /\ pc[p] \in {"prompt_decision", "hitl_workflow", "hitl_exit"} =>
                   InputCheckLogged(p)
            /\ gate_calls[p] > 0 => InputCheckLogged(p)
            /\ Exited(p) => InputCheckLogged(p)

\* the same ordering for the invocations whose payload is an event object
C8_OnEventObjects ==
    \A p \in procs :
        (event[p] = "UserPromptSubmit" /\ EventObject(p)) =>
            /\ pc[p] \in {"prompt_decision", "hitl_workflow", "hitl_exit"} =>
                   InputCheckLogged(p)
            /\ gate_calls[p] > 0 => InputCheckLogged(p)
            /\ Exited(p) => InputCheckLogged(p)

(***************************************************************************)
(* C9  PreToolUse                                                          *)
(***************************************************************************)
\* C9: a PreToolUse invocation appends a TOOL_USE entry unconditionally
\* before the denylist check, exits 2 exactly when the tool is "Bash" and
\* its stringified input contains "rm -rf /", and exits 0 otherwise, never 1.
C9_PreToolUse ==
    \A p \in procs :
        (event[p] = "PreToolUse" /\ Parsed(p)) =>
            /\ (pc[p] = "denylist_check" \/ Exited(p)) => EntriesOf(p, "TOOL_USE") # {}
            /\ Exited(p) => exit_code[p] = (IF DangerousToolUse(p) THEN 2 ELSE 0)

\* the same for the invocations whose payload is an event object
C9_OnEventObjects ==
    \A p \in procs :
        (event[p] = "PreToolUse" /\ EventObject(p)) =>
            /\ (pc[p] = "denylist_check" \/ Exited(p)) => EntriesOf(p, "TOOL_USE") # {}
            /\ Exited(p) => exit_code[p] = (IF DangerousToolUse(p) THEN 2 ELSE 0)

(***************************************************************************)
(* C10  PostToolUse                                                        *)
(***************************************************************************)
\* C10: a PostToolUse invocation never ends with a non-zero exit code: for
\* every tool result, with or without PII, HIGH or LOW risk, it ends with
\* exit 0 after appending one TOOL_OUTPUT_CHECK entry.
C10_PostToolUseAllows ==
    \A p \in procs :
        (event[p] = "PostToolUse" /\ Parsed(p) /\ Exited(p)) =>
            /\ exit_code[p] = 0
            /\ Cardinality(EntriesOf(p, "TOOL_OUTPUT_CHECK")) = 1

\* the same for the invocations whose payload is an event object
C10_OnEventObjects ==
    \A p \in procs :
        (event[p] = "PostToolUse" /\ EventObject(p) /\ Exited(p)) =>
            /\ exit_code[p] = 0
            /\ Cardinality(EntriesOf(p, "TOOL_OUTPUT_CHECK")) = 1

(***************************************************************************)
(* C11  Input that cannot be read or parsed                                *)
(***************************************************************************)
\* the POSTs process p made
PostsOf(p) == {i \in DOMAIN posts : posts[i].proc = p}

\* C11: for every event selector, an invocation whose standard input is
\* empty, unreadable or not JSON never enters a handler; it leaves the local
\* log as it was, sends nothing to the collector, does not ask the Approval
\* Gate, and exits 0.
C11_MalformedInputExitsZero ==
    \A p \in procs :
        ~Parsed(p) =>
            /\ pc[p] \in {"main", "exited"}
            /\ Exited(p) => exit_code[p] = 0
            /\ LinesOf(p) = {}
            /\ PostsOf(p) = {}
            /\ gate_calls[p] = 0
            /\ log = <<>>

\* a UserPromptSubmit invocation with a collector configured has exited on
\* standard input that is not JSON
C11_Witness ==
    \E p \in procs :
        /\ stdin[p].kind = "notjson"
        /\ event[p] = "UserPromptSubmit"
        /\ SIEM_URL[p]
        /\ Exited(p)
        /\ exit_code[p] = 0

(***************************************************************************)
(* C12  The answer of the Approval Gate                                    *)
(***************************************************************************)
\* the line is "y" or "Y", alone but for the whitespace and the line end
\* around it
Affirmative(line) ==
    \E i \in DOMAIN line :
        /\ line[i] \in {"y", "Y"}
        /\ \A j \in DOMAIN line : j # i => line[j] \in Whitespace

\* C12: the Approval Gate returns true only when the terminal could be
\* opened, written to and read and the line read is an explicit "y" in
\* either case; for every other line, for end of file, and when the
\* terminal is missing, cannot be opened or fails on write or read, it
\* returns false, and it never raises: the handler goes on to record the
\* answer and to exit by it.
C12_GateAnswer ==
    \A p \in procs :
        gate_calls[p] > 0 =>
            /\ approved[p] = (tty[p].dev = "ok" /\ Affirmative(tty[p].line))
            /\ tty[p].dev # "ok" => ~approved[p]
            /\ pc[p] \in {"log_audit", "send_to_siem", "hitl_exit", "exited"}
            /\ Exited(p) => exit_code[p] = (IF approved[p] THEN 0 ELSE 1)

\* the gate was asked and the terminal failed on write or read: denied,
\* exit 1, with the denial on record
C12_Witness ==
    \E p \in procs :
        /\ gate_calls[p] = 1
        /\ tty[p].dev = "ioerror"
        /\ ~approved[p]
        /\ Exited(p)
        /\ exit_code[p] = 1
        /\ EntriesOf(p, "HITL_APPROVAL") # {}

\* the gate was asked and the user typed "Y": approved
C12_WitnessYes ==
    \E p \in procs :
        /\ gate_calls[p] = 1
        /\ tty[p].line = <<"Y", "\n">>
        /\ approved[p]
        /\ Exited(p)
        /\ exit_code[p] = 0

(***************************************************************************)
(* C13  Overlapping invocations append to one log                          *)
(***************************************************************************)
\* the line of the entry process p is recording
LineOf(p) == [proc |-> p, levelname |-> "INFO", message |-> entry[p]]

\* what the log holds of process p at any moment: the entry p has just
\* emitted is its last audit line; once p has exited, each of its entries is
\* there once, INPUT_CHECK ahead of HITL_APPROVAL
AppendedOnceInOrder ==
    \A p \in procs :
        /\ pc[p] = "send_to_siem" =>
               /\ AuditLinesOf(p) # {}
               /\ \E i \in AuditLinesOf(p) :
                      /\ log[i] = LineOf(p)
                      /\ \A j \in AuditLinesOf(p) : j <= i
        /\ Exited(p) =>
               /\ Cardinality(AuditLinesOf(p)) = AuditEntriesDue(p)
               /\ AuditEntriesDue(p) > 0 =>
                      Cardinality(EntriesOf(p, EntryType(event[p]))) = 1
               /\ \A i \in EntriesOf(p, "INPUT_CHECK"), j \in EntriesOf(p, "HITL_APPROVAL") :
                      i < j

\* what a step does to the log: the lines it holds stay where and what they
\* are, at most one line is added, at the end, and the step of log_audit
\* adds the whole entry of its process
AppendOnly ==
    /\ Len(log') \in {Len(log), Len(log) + 1}
    /\ SubSeq(log', 1, Len(log)) = log
    /\ \A p \in procs :
           (pc[p] = "log_audit" /\ pc'[p] = "send_to_siem") => log' = Append(log, LineOf(p))

\* C13: with several invocations overlapping in time, under every
\* interleaving of their steps, every entry written by every process is in
\* the shared log exactly once and whole, no step removes, overwrites or
\* splits a line already there, and the entries of one process are in the
\* order the process emitted them.
C13_ConcurrentAppend == []AppendedOnceInOrder /\ [][AppendOnly]_vars

\* both invocations have exited and their lines alternate in the log: an
\* entry of the other process stands between the two entries of the HITL
\* prompt
C13_Witness ==
    /\ procs = {1, 2}
    /\ \A p \in procs : Exited(p)
    /\ \E i, j, k \in DOMAIN log :
           /\ i < j /\ j < k
           /\ log[i].proc = 1 /\ log[i].levelname = "INFO"
           /\ log[j].proc = 2 /\ log[j].levelname = "INFO"
           /\ log[k].proc = 1 /\ log[k].levelname = "INFO"

(***************************************************************************)
(* C14  Every handler is terminal                                          *)
(***************************************************************************)
\* a process has an exit code exactly when it has exited, and the code is
\* one of 0, 1, 2
OneExitCode ==
    \A p \in procs :
        /\ exit_code[p] \in {-1, 0, 1, 2}
        /\ (exit_code[p] # -1) = Exited(p)

\* an exited process stays exited with the exit code it has, and writes no
\* line, makes no POST and asks no gate
NothingAfterExit ==
    \A p \in procs :
        Exited(p) =>
            /\ pc'[p] = "exited"
            /\ exit_code'[p] = exit_code[p]
            /\ gate_calls'[p] = gate_calls[p]
            /\ Cardinality(LinesOf(p))' = Cardinality(LinesOf(p))
            /\ Cardinality(PostsOf(p))' = Cardinality(PostsOf(p))

\* C14: given that the terminal read and the POST return, every invocation,
\* whatever its event selector and payload, eventually exits, with exactly
\* one exit code, and takes no handler step (audit write, gate call, POST)
\* after the exit.
C14_Terminates ==
    /\ <>(\A p \in procs : Exited(p))
    /\ []OneExitCode
    /\ [][NothingAfterExit]_vars

\* the longest path has ended: a HIGH-risk prompt went through the gate,
\* wrote both entries with a failing POST each, and exited
C14_Witness ==
    \E p \in procs :
        /\ Exited(p)
        /\ HighRiskPrompt(p)
        /\ gate_calls[p] = 1
        /\ Cardinality(PostsOf(p)) = 2
        /\ collector[p] = "down"
        /\ exit_code[p] = 1

(***************************************************************************)
(* C15  Audit Sink: local append, then one POST                            *)
(***************************************************************************)
\* what holds of the POSTs of a process at any moment: none without a
\* configured collector; every entry POSTed is in the local log; every
\* entry in the local log has been POSTed once, the last one excepted while
\* its POST is still to come; and a process whose POSTs failed exits with
\* the exit code its input calls for
PostsFollowEntries ==
    \A p \in procs :
        /\ ~SIEM_URL[p] => PostsOf(p) = {}
        /\ \A i \in PostsOf(p) :
               /\ posts[i].ok = (collector[p] = "up")
               /\ \E j \in AuditLinesOf(p) : log[j].message = posts[i].entry
        /\ SIEM_URL[p] =>
               Cardinality(PostsOf(p)) =
                   Cardinality(AuditLinesOf(p)) - (IF pc[p] = "send_to_siem" THEN 1 ELSE 0)
        /\ (Exited(p) /\ EventObject(p)) => exit_code[p] = ContractExit(p)

\* a step that POSTs makes one POST, of an entry that is in the local log
\* already, and adds no audit line
PostAfterAppend ==
    posts' # posts =>
        /\ Len(posts') = Len(posts) + 1
        /\ SubSeq(posts', 1, Len(posts)) = posts
        /\ LET post == posts'[Len(posts')]
           IN \E j \in AuditLinesOf(post.proc) : log[j].message = post.entry
        /\ \A p \in procs : Cardinality(AuditLinesOf(p))' = Cardinality(AuditLinesOf(p))

\* C15: the local append of an entry happens before the POST of that entry
\* and whatever the POST's outcome; the POST is attempted at most once per
\* entry, and only when a collector is configured; a failed POST is
\* swallowed and the handler continues to its decision.
C15_AppendThenPostOnce == []PostsFollowEntries /\ [][PostAfterAppend]_vars

\* an approved HIGH-risk prompt: both entries are in the log, each was
\* POSTed once, both POSTs failed, and the invocation exited 0
C15_Witness ==
    \E p \in procs :
        /\ Exited(p)
        /\ exit_code[p] = 0
        /\ approved[p]
        /\ Cardinality(AuditLinesOf(p)) = 2
        /\ Cardinality(PostsOf(p)) = 2
        /\ \A i \in PostsOf(p) : ~posts[i].ok

(***************************************************************************)
(* C16  Pattern Matcher: exhaustive and idempotent redaction               *)
(***************************************************************************)
\* no pattern of the list matches anywhere in the text
NoPatternMatches(t) == \A n \in DOMAIN patterns : ~ReSearch(patterns[n].pattern, t)

\* what detection must return for a text: a value that is no string comes
\* back as it is, not found; a string without a match of any category comes
\* back as it is, not found; a redacted result holds no match of any
\* category, reported or not; and detection applied to the result returns
\* it unchanged
DetectionSound(text) ==
    Let(check_pii(text),
        LAMBDA d :
            IF text.k # "str" THEN d = [found |-> FALSE, redacted |-> text]
            ELSE /\ NoPatternMatches(text.v) => d = [found |-> FALSE, redacted |-> text]
                 /\ d.found = ~NoPatternMatches(text.v)
                 /\ d.redacted.k = "str"
                 /\ NoPatternMatches(d.redacted.v)
                 /\ check_pii(d.redacted) = [found |-> FALSE, redacted |-> d.redacted])

\* the handler of p has run detection
Detected(p) ==
    /\ EventObject(p)
    /\ event[p] \in {"UserPromptSubmit", "PostToolUse"}
    /\ pc[p] \notin {"main", "handle_user_prompt", "handle_post_tool_use"}

\* the text the handler of p gives to detection and classification
TextOf(p) == IF event[p] = "UserPromptSubmit" THEN PromptOf(p) ELSE Content(stdin[p].value)

\* C16: for every text a handler gives to the Pattern Matcher, the redacted
\* result holds no substring matching any category reported found, a text
\* without a match is returned unchanged with found false, and detection
\* applied to a redacted result returns it unchanged; the INPUT_CHECK entry
\* records that result.
C16_RedactionExhaustiveIdempotent ==
    \A p \in procs :
        Detected(p) =>
            /\ DetectionSound(TextOf(p))
            /\ has_pii[p] = check_pii(TextOf(p)).found
            /\ \A i \in EntriesOf(p, "INPUT_CHECK") :
                   /\ log[i].message.details.redacted_prompt = check_pii(TextOf(p)).redacted
                   /\ log[i].message.details.redacted_prompt.k = "str" =>
                          NoPatternMatches(log[i].message.details.redacted_prompt.v)

\* the prompt is an email address directly followed by the digits of an
\* SSN: the SSN has no word boundary before the email is redacted and is
\* redacted after it; both placeholders are in the recorded result
C16_Witness ==
    \E p \in procs :
        /\ event[p] = "UserPromptSubmit"
        /\ PromptOf(p) = Str(t_mail \o t_ssn)
        /\ ~ReSearch("ssn", t_mail \o t_ssn)
        /\ \E i \in EntriesOf(p, "INPUT_CHECK") :
               /\ log[i].message.details.has_pii
               /\ log[i].message.details.redacted_prompt = Str(REDACTED_EMAIL \o REDACTED_SSN)
        /\ Exited(p)

(***************************************************************************)
(* C17  Risk Classifier                                                    *)
(***************************************************************************)
\* the same character, or the two cases of one letter
SameLetter(a, b) ==
    \/ a = b
    \/ \E n \in DOMAIN UpperSeq : {a, b} = {UpperSeq[n], LowerSeq[n]}

\* the keyword stands somewhere in the text, the case of letters aside
OccursIgnoringCase(text, keyword) ==
    \E i \in 1..(Len(text) - Len(keyword) + 1) :
        \A j \in DOMAIN keyword : SameLetter(text[i + j - 1], keyword[j])

\* HIGH for a string that holds a keyword, LOW for every other string, the
\* empty one included, and for a value that is no string
RiskOf(text) ==
    IF /\ text.k = "str"
       /\ \E n \in DOMAIN high_risk_keywords :
              OccursIgnoringCase(text.v, high_risk_keywords[n])
    THEN "HIGH"
    ELSE "LOW"

\* C17: for every text that holds a configured high-risk keyword as a
\* substring, in whatever case, the Risk Classifier returns HIGH; for every
\* other text, the empty text and every value that is no string it returns
\* LOW; the result depends on the text and the keyword list only, not on
\* the event, the terminal or the collector.  The INPUT_CHECK entry
\* carries that result.
C17_KeywordMeansHigh ==
    \A p \in procs :
        Detected(p) =>
            /\ risk[p] = RiskOf(TextOf(p))
            /\ classify_risk(TextOf(p)) = RiskOf(TextOf(p))
            /\ \A i \in EntriesOf(p, "INPUT_CHECK") :
                   log[i].message.risk_level = RiskOf(TextOf(p))

\* the prompt "SECREt", a keyword put together from two pieces in mixed
\* case, was classified HIGH
C17_Witness ==
    \E p \in procs :
        /\ event[p] = "UserPromptSubmit"
        /\ PromptOf(p) = Str(t_SECRE \o <<"t">>)
        /\ risk[p] = "HIGH"
        /\ \E i \in EntriesOf(p, "INPUT_CHECK") : log[i].message.risk_level = "HIGH"
        /\ Exited(p)

\* the empty prompt and a prompt that is a number were classified LOW
C17_WitnessLow ==
    \E p \in procs :
        /\ event[p] = "UserPromptSubmit"
        /\ PromptOf(p) \in {Str(<<>>), Num(t_digits)}
        /\ Detected(p)
        /\ risk[p] = "LOW"

(***************************************************************************)
(* C18  The recorded decision and the exit code                            *)
(***************************************************************************)
\* the decisions of the audit entries of process p
DecisionsOf(p) == {log[i].message.decision : i \in AuditLinesOf(p)}

\* the recorded decisions of an exited process agree with its exit code
DecisionAgrees(p) ==
    /\ exit_code[p] \in {1, 2} => DecisionsOf(p) \cap {"BLOCKED", "DENIED"} # {}
    /\ DecisionsOf(p) \subseteq {"ALLOWED", "APPROVED"} => exit_code[p] = 0

\* C18: every invocation that exits with a block code (1 or 2) has
\* appended at least one audit entry whose decision is BLOCKED or DENIED,
\* and every invocation whose entries all carry ALLOWED or APPROVED exits 0.
C18_DecisionAgreesWithExit ==
    \A p \in procs : Exited(p) => DecisionAgrees(p)

\* the same for the invocations whose payload is an event object: violated
\* as well, by a prompt with PII and by the shell tool with "rm -rf /"
C18_OnEventObjects ==
    \A p \in procs : (Exited(p) /\ EventObject(p)) => DecisionAgrees(p)

\* where the recorded decision does agree: a HIGH-risk prompt without PII,
\* whose HITL_APPROVAL entry says BLOCKED when the exit code is 1 and
\* ALLOWED when it is 0
C18_HitlDecisionRecorded ==
    \A p \in procs : (Exited(p) /\ HighRiskPrompt(p)) => DecisionAgrees(p)

(***************************************************************************)
(* C19  A selector that main does not know                                 *)
(***************************************************************************)
\* the four selectors main dispatches on
HandledEvents == {"SessionStart", "UserPromptSubmit", "PreToolUse", "PostToolUse"}

\* process p was started with a selector main does not dispatch on
UnknownSelector(p) == event[p] \notin HandledEvents

\* p has called neither check_pii, classify_risk, request_user_approval nor
\* the collector, and no line of the log is p's
NoEffects(p) ==
    /\ pc[p] \in {"main", "exited"}
    /\ has_pii[p] = FALSE /\ risk[p] = "LOW" /\ approved[p] = FALSE
    /\ entry[p] = NoEntry
    /\ gate_calls[p] = 0
    /\ LinesOf(p) = {}
    /\ PostsOf(p) = {}
    /\ Exited(p) => exit_code[p] = 0

\* a step of a process with an unknown selector leaves the log and the
\* collector as they were
UnknownSelectorStep ==
    \A p \in procs :
        (UnknownSelector(p) /\ pc'[p] # pc[p]) =>
            /\ pc'[p] = "exited" /\ exit_code'[p] = 0
            /\ log' = log /\ posts' = posts /\ gate_calls' = gate_calls

\* C19: an invocation whose event selector is none of SessionStart,
\* UserPromptSubmit, PreToolUse, PostToolUse exits 0 with the audit log
\* unchanged and without calling check_pii, classify_risk,
\* request_user_approval or the collector, whatever the payload is.
C19_UnknownSelectorNoEffects ==
    /\ [](\A p \in procs : UnknownSelector(p) => NoEffects(p))
    /\ [][UnknownSelectorStep]_vars

\* the selector "Stop" with an event object whose prompt holds PII and a
\* HIGH-risk keyword would matter to a handler; the process has exited 0
C19_Witness ==
    \E p \in procs :
        /\ event[p] = "Stop"
        /\ EventObject(p)
        /\ check_pii(PromptOf(p)).found
        /\ SIEM_URL[p]
        /\ Exited(p)
        /\ exit_code[p] = 0

\* the same selector with a payload that is JSON but no object
C19_WitnessNoObject ==
    \E p \in procs :
        /\ event[p] = "Stop"
        /\ Parsed(p) /\ ~EventObject(p)
        /\ Exited(p)
        /\ exit_code[p] = 0

====
